---------------------------- MODULE Spec2Model ----------------------------
(***************************************************************************)
(* Inbox Triage Outlook add-in (taskpane.js): the triage orchestrator      *)
(* (runTriage, markLowPriorityRead), the configuration reader (getConfig), *)
(* the classifier (isLowPriority) and the scorer (scoreItem).              *)
(*                                                                         *)
(* JavaScript strings are modelled as sequences of one-character strings,  *)
(* so that toLowerCase, trim, split, includes and parseInt are computed    *)
(* character by character.  Time is counted in minutes: 3_600_000 ms is    *)
(* HOUR and 86_400_000 ms is DAY.                                          *)
(***************************************************************************)
EXTENDS Integers, Sequences, FiniteSets, TLC

VARIABLES
  now,              \* Date.now(), in minutes
  dom,              \* the three input fields getConfig reads
  unread,           \* the mailbox: what FindItem returns, in retrieval order
  buttons,          \* the disabled flag of btnDryRun, btnTriage, btnMarkRead
  status,           \* what setStatus last wrote
  results,          \* innerHTML of the results pane
  lastScoredItems,  \* the module-level array of scored items
  runs,             \* the invocations of runTriage / markLowPriorityRead in flight
  done,             \* history: the run that ended last
  evalCfg,          \* scoring harness: the Config handed to the scorer
  evalItem,         \* scoring harness: the message handed to the scorer
  firstEval,        \* scoring harness: the first evaluation of evalItem
  lastEval          \* scoring harness: the latest later evaluation of evalItem

vars == <<now, dom, unread, buttons, status, results, lastScoredItems, runs,
          done, evalCfg, evalItem, firstEval, lastEval>>

\* ---------------------------------------------------------------- bounds

\* The clock advances at most MaxTicks times, TickStep minutes each.
MaxTicks == 1
\* A FindItem response holds at most MaxFetch messages.
MaxFetch == 2
\* At most MaxRuns handler invocations can be pending at once.
MaxRuns == 2

\* ------------------------------------------------------------- constants

HOUR == 60
DAY == 1440
\* The clock reading of the initial state.
T0 == 6000
TickStep == 180
\* getTime() of an Invalid Date (NaN): received is '' or unparseable.
NaT == -1

\* ---------------------------------------------------------------- strings

Min(S) == CHOOSE x \in S : \A y \in S : x <= y
Max(S) == CHOOSE x \in S : \A y \in S : x >= y

UpperChars == <<"A","B","C","D","E","F","G","H","I","J","K","L","M","N","O","P","Q","R","S","T","U","V","W","X","Y","Z">>
LowerChars == <<"a","b","c","d","e","f","g","h","i","j","k","l","m","n","o","p","q","r","s","t","u","v","w","x","y","z">>
DigitChars == <<"0","1","2","3","4","5","6","7","8","9">>
WhiteSpace == {" ", "\t", "\n"}

\* The lower-case form of each upper-case letter.
LowerOf ==
  [c \in {UpperChars[k] : k \in 1..26} |->
     LowerChars[CHOOSE k \in 1..26 : UpperChars[k] = c]]

\* String.prototype.toLowerCase
toLowerCase(s) ==
  [i \in 1..Len(s) |-> IF s[i] \in DOMAIN LowerOf THEN LowerOf[s[i]] ELSE s[i]]

\* String.prototype.includes
includes(s, sub) ==
  \E i \in 0..(Len(s) - Len(sub)) : \A j \in 1..Len(sub) : s[i + j] = sub[j]

\* String.prototype.trim
trim(s) ==
  LET keep == {i \in 1..Len(s) : s[i] \notin WhiteSpace}
  IN  IF keep = {} THEN <<>> ELSE SubSeq(s, Min(keep), Max(keep))

\* String.prototype.split(',')
RECURSIVE split(_)
split(s) ==
  LET commas == {i \in 1..Len(s) : s[i] = ","}
  IN  IF commas = {} THEN <<s>>
      ELSE LET first == Min(commas)
           IN  <<SubSeq(s, 1, first - 1)>> \o split(SubSeq(s, first + 1, Len(s)))

Truthy(s) == s # <<>>

\* str.split(',').map(s => s.trim().toLowerCase()).filter(Boolean)
splitList(str) ==
  LET parts  == split(str)
      mapped == [i \in 1..Len(parts) |-> toLowerCase(trim(parts[i]))]
  IN  SelectSeq(mapped, Truthy)

DigitVal(c) == (CHOOSE k \in 1..10 : DigitChars[k] = c) - 1
IsDigit(c) == \E k \in 1..10 : DigitChars[k] = c

RECURSIVE DigitsValue(_, _)
DigitsValue(ds, acc) ==
  IF ds = <<>> THEN acc ELSE DigitsValue(Tail(ds), acc * 10 + DigitVal(Head(ds)))

\* parseInt(str, 10): leading white space is skipped, then an optional sign,
\* then the longest run of digits; NaN when that run is empty.
parseInt(str) ==
  LET nonws  == {i \in 1..Len(str) : str[i] \notin WhiteSpace}
      s      == IF nonws = {} THEN <<>> ELSE SubSeq(str, Min(nonws), Len(str))
      signed == s # <<>> /\ s[1] \in {"+", "-"}
      body   == IF signed THEN Tail(s) ELSE s
      stops  == {i \in 1..Len(body) : ~IsDigit(body[i])}
      digits == IF stops = {} THEN body ELSE SubSeq(body, 1, Min(stops) - 1)
      mag    == DigitsValue(digits, 0)
  IN  IF digits = <<>> THEN [isNaN |-> TRUE, val |-> 0]
      ELSE [isNaN |-> FALSE, val |-> IF signed /\ s[1] = "-" THEN 0 - mag ELSE mag]

\* ---------------------------------------------------------- configuration

DEFAULTS ==
  [highSenders  |-> <<"y","o","u","r","b","o","s","s","@","c","o","m","p","a","n","y",".","c","o","m",","," ","c","e","o","@","c","o","m","p","a","n","y",".","c","o","m">>,
   lowSenders   |-> <<"n","o","r","e","p","l","y","@",","," ","n","o","t","i","f","i","c","a","t","i","o","n","s","@",","," ","n","e","w","s","l","e","t","t","e","r","@",","," ","d","o","n","o","t","r","e","p","l","y","@",","," ","n","o","-","r","e","p","l","y","@",","," ","a","l","e","r","t","s","@",","," ","u","p","d","a","t","e","s","@",","," ","m","a","i","l","e","r","@",","," ","p","r","o","m","o","@",","," ","m","a","r","k","e","t","i","n","g","@">>,
   highSubjects |-> <<"u","r","g","e","n","t",","," ","a","c","t","i","o","n"," ","r","e","q","u","i","r","e","d",","," ","d","e","c","i","s","i","o","n"," ","n","e","e","d","e","d",","," ","a","p","p","r","o","v","a","l",","," ","c","r","i","t","i","c","a","l",","," ","i","m","p","o","r","t","a","n","t">>,
   lowSubjects  |-> <<"u","n","s","u","b","s","c","r","i","b","e",","," ","n","e","w","s","l","e","t","t","e","r",","," ","y","o","u","r"," ","r","e","c","e","i","p","t",","," ","s","u","b","s","c","r","i","p","t","i","o","n",","," ","s","a","l","e",","," ","o","f","f","e","r",","," ","f","r","e","e",","," ","w","e","b","i","n","a","r",","," ","d","i","g","e","s","t",","," ","w","e","e","k","l","y"," ","u","p","d","a","t","e",","," ","m","o","n","t","h","l","y"," ","r","e","p","o","r","t",","," ","a","u","t","o","m","a","t","e","d",","," ","n","o","t","i","f","i","c","a","t","i","o","n">>,
   daysBack     |-> 7,
   maxItems     |-> 50]

\* parseInt(...) || 7 : NaN and 0 are falsy
OrSeven(n) == IF n.isNaN \/ n.val = 0 THEN 7 ELSE n.val

\* splitList(DEFAULTS.highSubjects), splitList(DEFAULTS.lowSubjects)
DefaultHighSubjects == splitList(DEFAULTS.highSubjects)
DefaultLowSubjects == splitList(DEFAULTS.lowSubjects)

getConfig ==
  [highSenders  |-> splitList(dom.cfgHighSenders),
   lowSenders   |-> splitList(dom.cfgLowSenders),
   highSubjects |-> DefaultHighSubjects,
   lowSubjects  |-> DefaultLowSubjects,
   daysBack     |-> OrSeven(parseInt(dom.cfgDays))]

\* ------------------------------------------------- classifier and scorer

\* list.some(s => text.includes(s))
SomeIncluded(list, text) == \E k \in 1..Len(list) : includes(text, list[k])

\* Faulty variant: the classifier consults the clock (mail older than 48 h is noise).
isLowPriority_clock(item, cfg) ==
  \/ SomeIncluded(cfg.lowSenders, toLowerCase(item.from))
  \/ SomeIncluded(cfg.lowSubjects, toLowerCase(item.subject))
  \/ item.importance = "Low" /\ ~item.isDirect
  \/ item.received # NaT /\ now - item.received >= 48 * HOUR

isLowPriority(item, cfg) ==
  LET sender == toLowerCase(item.from)
      subj   == toLowerCase(item.subject)
  IN  IF SomeIncluded(cfg.lowSenders, sender) THEN TRUE
      ELSE IF SomeIncluded(cfg.lowSubjects, subj) THEN TRUE
      ELSE IF item.importance = "Low" /\ ~item.isDirect THEN TRUE
      ELSE FALSE

replyPhrases ==
  <<<<"p","l","e","a","s","e"," ","r","e","p","l","y">>, <<"l","e","t"," ","m","e"," ","k","n","o","w">>, <<"y","o","u","r"," ","t","h","o","u","g","h","t","s">>, <<"w","a","i","t","i","n","g"," ","f","o","r">>, <<"y","o","u","r"," ","f","e","e","d","b","a","c","k">>, <<"c","a","n"," ","y","o","u">>>>

\* new Date(item.received).getTime()
getTime(received) == received

\* hoursOld < h, with hoursOld = (Date.now() - getTime) / 3_600_000; every
\* comparison with NaN is false.
HoursOldBelow(item, h) ==
  getTime(item.received) # NaT /\ now - getTime(item.received) < h * HOUR

MathMax(a, b) == IF a >= b THEN a ELSE b

\* The additive part of the score, shared by the faulty variants of scoreItem.
RawScore(item, cfg, recency) ==
  10 + (IF SomeIncluded(cfg.highSenders, toLowerCase(item.from)) THEN 50 ELSE 0)
     + (IF SomeIncluded(cfg.highSubjects, toLowerCase(item.subject)) THEN 30 ELSE 0)
     + recency
     + (IF item.isDirect THEN 15 ELSE 0)
     + (IF SomeIncluded(replyPhrases, toLowerCase(item.bodyPreview)) THEN 10 ELSE 0)
     + (IF item.importance = "High" THEN 25 ELSE 0)
     - (IF item.importance = "Low" THEN 10 ELSE 0)

\* Faulty variant: the early return for low-priority messages is missing.
scoreItem_ungated(item, cfg) ==
  MathMax(RawScore(item, cfg,
                   IF HoursOldBelow(item, 4) THEN 20
                   ELSE IF HoursOldBelow(item, 24) THEN 10
                   ELSE IF HoursOldBelow(item, 48) THEN 5 ELSE 0), 1)

\* Faulty variant: the recency tiers are plain ifs, so a fresh message collects all three.
scoreItem_summed(item, cfg) ==
  IF isLowPriority(item, cfg) THEN 0
  ELSE MathMax(RawScore(item, cfg,
                        (IF HoursOldBelow(item, 4) THEN 20 ELSE 0)
                        + (IF HoursOldBelow(item, 24) THEN 10 ELSE 0)
                        + (IF HoursOldBelow(item, 48) THEN 5 ELSE 0)), 1)

scoreItem(item, cfg) ==
  IF isLowPriority(item, cfg) THEN 0
  ELSE
    LET sender == toLowerCase(item.from)
        subj   == toLowerCase(item.subject)
        body   == toLowerCase(item.bodyPreview)
        s0 == 10
        s1 == IF SomeIncluded(cfg.highSenders, sender) THEN s0 + 50 ELSE s0
        s2 == IF SomeIncluded(cfg.highSubjects, subj) THEN s1 + 30 ELSE s1
        s3 == IF HoursOldBelow(item, 4) THEN s2 + 20
              ELSE IF HoursOldBelow(item, 24) THEN s2 + 10
              ELSE IF HoursOldBelow(item, 48) THEN s2 + 5
              ELSE s2
        s4 == IF item.isDirect THEN s3 + 15 ELSE s3
        s5 == IF SomeIncluded(replyPhrases, body) THEN s4 + 10 ELSE s4
        s6 == IF item.importance = "High" THEN s5 + 25 ELSE s5
        s7 == IF item.importance = "Low" THEN s6 - 10 ELSE s6
    IN  MathMax(s7, 1)

badgeLevel(score) ==
  IF score >= 80 THEN "high"
  ELSE IF score >= 40 THEN "med"
  ELSE "low"

\* ---------------------------------------------------------------- inputs

\* Office.onReady fills cfgHighSenders and cfgLowSenders with the defaults.
DomDefault ==
  [cfgHighSenders |-> DEFAULTS.highSenders,
   cfgLowSenders  |-> DEFAULTS.lowSenders,
   cfgDays        |-> <<"a","b","c">>]

\* What the three fields hold when the user starts clicking: the defaults with
\* a look-back that is no number, or lists of the user's own with a look-back
\* of 45 days.
DomInputs ==
  {DomDefault,
   [cfgHighSenders |-> <<" ","B","o","b","@","C","o","r","p",".","c","o","m"," ",",",","," ","A","M","Y","@"," ">>,
    cfgLowSenders  |-> <<>>,
    cfgDays        |-> <<"4","5">>]}

CeoMessage ==
  [id |-> "A", from |-> <<"c","e","o","@","c","o","m","p","a","n","y",".","c","o","m">>, subject |-> <<"A","c","t","i","o","n"," ","R","e","q","u","i","r","e","d",":"," ","b","u","d","g","e","t">>,
   received |-> T0 - 1 * HOUR, importance |-> "Normal", bodyPreview |-> <<>>,
   isDirect |-> TRUE]

NewsletterMessage ==
  [id |-> "B", from |-> <<"n","e","w","s","l","e","t","t","e","r","@","s","e","r","v","i","c","e",".","c","o","m">>, subject |-> <<"W","e","e","k","l","y"," ","d","i","g","e","s","t">>,
   received |-> T0 - 23 * HOUR, importance |-> "Normal", bodyPreview |-> <<>>,
   isDirect |-> TRUE]

\* The messages of the scoring harness: every combination of these fields.
EvalFroms ==
  {CeoMessage.from, NewsletterMessage.from, <<"B","o","b"," ","S","m","i","t","h"," ","<","b","o","b","@","c","o","r","p",".","c","o","m",">">>, <<"(","u","n","k","n","o","w","n",")">>}
EvalSubjects ==
  {CeoMessage.subject, NewsletterMessage.subject, <<"L","u","n","c","h","?">>, <<"(","n","o"," ","s","u","b","j","e","c","t",")">>}
EvalBodies == {<<>>, <<"P","l","e","a","s","e"," ","r","e","p","l","y"," ","b","y"," ","F","r","i","d","a","y">>}
EvalReceived == {NaT, T0 + 1 * HOUR, T0 - 1 * HOUR, T0 - 23 * HOUR, T0 - 47 * HOUR}
EvalImportance == {"High", "Normal", "Low", ""}

EvalItems ==
  [id : {"A"}, from : EvalFroms, subject : EvalSubjects, received : EvalReceived,
   importance : EvalImportance, bodyPreview : EvalBodies, isDirect : BOOLEAN]

\* ------------------------------------------------------------------ clock

Tick ==
  /\ now < T0 + MaxTicks * TickStep
  /\ now' = now + TickStep
  /\ UNCHANGED <<dom, unread, buttons, status, results, lastScoredItems, runs,
                 done, evalCfg, evalItem, firstEval, lastEval>>

\* The messages of the mailbox.
BobMessage ==
  [id |-> "C", from |-> <<"B","o","b"," ","S","m","i","t","h"," ","<","b","o","b","@","c","o","r","p",".","c","o","m",">">>, subject |-> <<"L","u","n","c","h","?">>,
   received |-> T0 - 30 * HOUR, importance |-> "Normal",
   bodyPreview |-> <<"L","e","t"," ","m","e"," ","k","n","o","w">>, isDirect |-> TRUE]

AmyMessage ==
  [id |-> "D", from |-> <<"a","m","y","@","c","o","r","p",".","c","o","m">>, subject |-> <<"R","e",":"," ","p","l","a","n">>,
   received |-> T0 - 2 * HOUR, importance |-> "Normal",
   bodyPreview |-> <<"C","a","n"," ","y","o","u"," ","r","e","v","i","e","w","?">>, isDirect |-> FALSE]

DeskMessage ==
  [id |-> "E", from |-> <<"I","T"," ","D","e","s","k"," ","<","i","t","@","c","o","r","p",".","c","o","m",">">>, subject |-> <<"M","a","i","n","t","e","n","a","n","c","e">>,
   received |-> NaT, importance |-> "Low", bodyPreview |-> <<>>, isDirect |-> FALSE]

Pool == {NewsletterMessage, BobMessage, AmyMessage, DeskMessage}

\* Every sequence of at most MaxFetch distinct messages of the pool.
Mailboxes ==
  {q \in UNION {[1..n -> Pool] : n \in 0..MaxFetch} :
     \A i, j \in 1..Len(q) : i # j => q[i] # q[j]}

\* ------------------------------------------------------------ UI helpers

Buttons == {"btnDryRun", "btnTriage", "btnMarkRead"}

\* setStatus(msg, loading): msg is kept as its kind and the numbers it shows.
setStatus(text, marked, replies, dryTag, loading) ==
  [text |-> text, marked |-> marked, replies |-> replies, dryTag |-> dryTag,
   loading |-> loading]

\* Faulty variant: the buttons are left as they are.
setButtonsDisabled_noop(disabled) == buttons

setButtonsDisabled(disabled) == [b \in Buttons |-> disabled]

Blank ==
  [kind |-> "blank", msg |-> "", days |-> 0, priority |-> <<>>, low |-> <<>>,
   more |-> 0, dryRun |-> FALSE]

renderEmpty(msg, days) == [Blank EXCEPT !.kind = "empty", !.msg = msg, !.days = days]

\* formatAge(isoString), as <<number, unit>>; '' is <<0, "">>.
formatAge(received) ==
  IF received = NaT THEN <<0, "">>
  ELSE LET diff == now - getTime(received)
       IN  IF diff < 1 * HOUR THEN <<diff, "m ago">>
           ELSE IF diff < 24 * HOUR THEN <<(diff + 30) \div HOUR, "h ago">>
           ELSE <<(diff + 12 * HOUR) \div (24 * HOUR), "d ago">>

PriorityCard(item) ==
  [id |-> item.id, level |-> badgeLevel(item.score), score |-> item.score,
   age |-> formatAge(item.received)]

LowCard(item) == [id |-> item.id, age |-> formatAge(item.received)]

MathMin(a, b) == IF a <= b THEN a ELSE b

renderResults(priorityItems, lowItems, dryRun) ==
  [kind     |-> "report",
   msg      |-> IF priorityItems = <<>> THEN "No emails needing replies." ELSE "",
   days     |-> 0,
   priority |-> [i \in 1..Len(priorityItems) |-> PriorityCard(priorityItems[i])],
   low      |-> [i \in 1..MathMin(20, Len(lowItems)) |-> LowCard(lowItems[i])],
   more     |-> IF Len(lowItems) > 20 THEN Len(lowItems) - 20 ELSE 0,
   dryRun   |-> dryRun]

\* --------------------------------------------------------------- scoring

\* items.map(item => ({...item, score, isLowPriority}))
ScoreAll(items, cfg) ==
  [i \in 1..Len(items) |->
     [id |-> items[i].id, from |-> items[i].from, subject |-> items[i].subject,
      received |-> items[i].received, importance |-> items[i].importance,
      bodyPreview |-> items[i].bodyPreview, isDirect |-> items[i].isDirect,
      score |-> scoreItem(items[i], cfg),
      isLowPriority |-> isLowPriority(items[i], cfg)]]

\* Faulty variant: the comparator sorts ascending.
compare_ascending(a, b) == a.score - b.score

\* (a, b) => b.score - a.score
compare(a, b) == b.score - a.score

\* Array.prototype.sort is stable: an element goes behind every element that
\* the comparator does not order after it.
RECURSIVE sort(_)
sort(seq) ==
  IF seq = <<>> THEN <<>>
  ELSE LET front == sort(SubSeq(seq, 1, Len(seq) - 1))
           x     == seq[Len(seq)]
           k     == Cardinality({i \in 1..Len(front) : compare(front[i], x) <= 0})
       IN  SubSeq(front, 1, k) \o <<x>> \o SubSeq(front, k + 1, Len(front))

NotLow(i) == ~i.isLowPriority
IsLow(i) == i.isLowPriority

\* Faulty variant: the priority list is not filtered.
PriorityItems_unfiltered(scored) == sort(scored)

\* lastScoredItems.filter(i => !i.isLowPriority).sort(...)
PriorityItems(scored) == sort(SelectSeq(scored, NotLow))

\* Faulty variant: the low-priority list is not filtered.
LowItems_unfiltered(scored) == scored

\* lastScoredItems.filter(i => i.isLowPriority)
LowItems(scored) == SelectSeq(scored, IsLow)

\* list.map(i => i.id)
Ids(list) == [i \in 1..Len(list) |-> list[i].id]

\* Faulty variant: the dry-run flag is not consulted.
ShouldMark_ignoringDryRun(dryRun, lowItems) == lowItems # <<>>

\* !dryRun && lowItems.length
ShouldMark(dryRun, lowItems) == ~dryRun /\ lowItems # <<>>

\* markItemsAsRead(itemIds): the UpdateItem requests it sends, each the ids of
\* one envelope; none for an empty list.
markItemsAsRead(itemIds) == IF itemIds = <<>> THEN <<>> ELSE <<itemIds>>

\* ------------------------------------------------------------------- runs

\* The FindItem request of fetchUnreadMessages(daysBack): unread messages
\* received after `since', at most DEFAULTS.maxItems of them.
FindItem(daysBack) ==
  [since |-> now - daysBack * DAY, maxEntriesReturned |-> DEFAULTS.maxItems]

NoRun ==
  [kind |-> "none", dryRun |-> FALSE, pc |-> "ended", outcome |-> "none",
   cfg |-> <<>>, findItem |-> [since |-> 0, maxEntriesReturned |-> 0],
   fetched |-> FALSE, items |-> <<>>, scored |-> FALSE,
   scoredAt |-> 0, priorityItems |-> <<>>, lowItems |-> <<>>, requests |-> <<>>,
   errors |-> 0, reported |-> -1]

NewRun(kind, dryRun, cfg) ==
  [NoRun EXCEPT !.kind = kind, !.dryRun = dryRun, !.pc = "fetching",
                !.outcome = "pending", !.cfg = cfg,
                !.findItem = FindItem(cfg.daysBack)]

RemoveAt(seq, k) == SubSeq(seq, 1, k - 1) \o SubSeq(seq, k + 1, Len(seq))

\* The record of a run that has ended; its FindItem request is complete.
Ended(run, outcome) ==
  [run EXCEPT !.pc = "ended", !.outcome = outcome, !.findItem = NoRun.findItem]

HarnessIdle == UNCHANGED <<evalCfg, evalItem, firstEval, lastEval>>

\* runTriage(dryRun) up to its first await: the FindItem request is sent.
StartTriage(button, dryRun) ==
  /\ ~buttons[button]
  /\ Len(runs) < MaxRuns
  /\ buttons' = setButtonsDisabled(TRUE)
  /\ status' = setStatus("Fetching unread messages", 0, 0, FALSE, TRUE)
  /\ results' = Blank
  /\ runs' = Append(runs, NewRun("triage", dryRun, getConfig))
  /\ UNCHANGED <<now, dom, unread, lastScoredItems, done>>
  /\ HarnessIdle

ClickDryRun == StartTriage("btnDryRun", TRUE)

ClickTriage == StartTriage("btnTriage", FALSE)

\* markLowPriorityRead() up to its first await.
ClickMarkRead ==
  /\ ~buttons["btnMarkRead"]
  /\ Len(runs) < MaxRuns
  /\ buttons' = setButtonsDisabled(TRUE)
  /\ status' = setStatus("Fetching unread messages", 0, 0, FALSE, TRUE)
  /\ runs' = Append(runs, NewRun("markOnly", FALSE, getConfig))
  /\ UNCHANGED <<now, dom, unread, results, lastScoredItems, done>>
  /\ HarnessIdle

\* Faulty variant: the catch block leaves the results pane alone.
CatchResults_untouched(kind) == results

\* What the catch block leaves in the results pane: runTriage renders the
\* placeholder, markLowPriorityRead does not touch the pane.
CatchResults(kind) ==
  IF kind = "triage"
  THEN renderEmpty("Something went wrong - see status bar above.", 0)
  ELSE results

\* catch and finally of either handler.
Catch(k, outcome) ==
  /\ status' = setStatus("Error", 0, 0, FALSE, FALSE)
  /\ results' = CatchResults(runs[k].kind)
  /\ buttons' = setButtonsDisabled(FALSE)
  /\ done' = Ended([runs[k] EXCEPT !.errors = @ + 1], outcome)
  /\ runs' = RemoveAt(runs, k)

\* makeEwsRequestAsync reports Failed for FindItem, or the response does not
\* parse: fetchUnreadMessages rejects.
FetchFailed ==
  \E k \in 1..Len(runs) :
    /\ runs[k].pc = "fetching"
    /\ Catch(k, "fetch failed")
    /\ UNCHANGED <<now, dom, unread, lastScoredItems>>
    /\ HarnessIdle

\* runTriage from the FindItem response to its next await or its end.
TriageFetched ==
  \E k \in 1..Len(runs) :
    LET run    == runs[k]
        items  == unread
        scored == ScoreAll(items, run.cfg)
        priorityItems == PriorityItems(scored)
        lowItems      == LowItems(scored)
        requests      == markItemsAsRead(Ids(lowItems))
        after  == [run EXCEPT !.fetched = TRUE, !.items = items, !.scored = TRUE,
                              !.scoredAt = now, !.priorityItems = priorityItems,
                              !.lowItems = lowItems]
    IN
    /\ run.pc = "fetching"
    /\ run.kind = "triage"
    /\ \/ /\ items = <<>>
          /\ results' = renderEmpty("No unread messages found", run.cfg.daysBack)
          /\ status' = setStatus("Inbox looks clear!", 0, 0, FALSE, FALSE)
          /\ buttons' = setButtonsDisabled(FALSE)
          /\ done' = Ended([run EXCEPT !.fetched = TRUE], "clear")
          /\ runs' = RemoveAt(runs, k)
          /\ UNCHANGED lastScoredItems
       \/ /\ items # <<>>
          /\ ShouldMark(run.dryRun, lowItems)
          /\ requests # <<>>
          /\ lastScoredItems' = scored
          /\ status' = setStatus("Marking", Len(lowItems), 0, FALSE, TRUE)
          /\ runs' = [runs EXCEPT ![k] = [after EXCEPT !.pc = "marking",
                                                       !.requests = requests]]
          /\ UNCHANGED <<buttons, results, done>>
       \/ /\ items # <<>>
          /\ ~(ShouldMark(run.dryRun, lowItems) /\ requests # <<>>)
          /\ lastScoredItems' = scored
          /\ results' = renderResults(priorityItems, lowItems, run.dryRun)
          /\ status' = setStatus("report", Len(lowItems), Len(priorityItems),
                                 run.dryRun, FALSE)
          /\ buttons' = setButtonsDisabled(FALSE)
          /\ done' = Ended([after EXCEPT !.reported = Len(lowItems)], "report")
          /\ runs' = RemoveAt(runs, k)
    /\ UNCHANGED <<now, dom, unread>>
    /\ HarnessIdle

\* markLowPriorityRead from the FindItem response to its next await or its end.
MarkOnlyFetched ==
  \E k \in 1..Len(runs) :
    LET run      == runs[k]
        items    == unread
        flagged  == [i \in 1..Len(items) |->
                       [id |-> items[i].id,
                        isLowPriority |-> isLowPriority(items[i], run.cfg)]]
        low      == SelectSeq(flagged, IsLow)
        requests == markItemsAsRead(Ids(low))
        after    == [run EXCEPT !.fetched = TRUE, !.items = items, !.lowItems = low]
    IN
    /\ run.pc = "fetching"
    /\ run.kind = "markOnly"
    /\ \/ /\ low = <<>>
          /\ status' = setStatus("No low-priority unread messages found.",
                                 0, 0, FALSE, FALSE)
          /\ buttons' = setButtonsDisabled(FALSE)
          /\ done' = Ended(after, "none low")
          /\ runs' = RemoveAt(runs, k)
       \/ /\ low # <<>>
          /\ status' = setStatus("Marking", Len(low), 0, FALSE, TRUE)
          /\ runs' = [runs EXCEPT ![k] = [after EXCEPT !.pc = "marking",
                                                       !.requests = requests]]
          /\ UNCHANGED <<buttons, done>>
    /\ UNCHANGED <<now, dom, unread, results, lastScoredItems>>
    /\ HarnessIdle

\* makeEwsRequestAsync reports Failed for UpdateItem: markItemsAsRead rejects.
MarkFailed ==
  \E k \in 1..Len(runs) :
    /\ runs[k].pc = "marking"
    /\ Catch(k, "mark failed")
    /\ UNCHANGED <<now, dom, unread, lastScoredItems>>
    /\ HarnessIdle

\* The server has set IsRead on the submitted items: they are unread no more.
AfterUpdateItem(ids) ==
  LET Kept(m) == \A i \in 1..Len(ids) : ids[i] # m.id
  IN  SelectSeq(unread, Kept)

\* UpdateItem succeeded: the rest of runTriage or of markLowPriorityRead.
Marked ==
  \E k \in 1..Len(runs) :
    LET run == runs[k]
    IN
    /\ run.pc = "marking"
    /\ unread' = AfterUpdateItem(run.requests[1])
    /\ \/ /\ run.kind = "triage"
          /\ results' = renderResults(run.priorityItems, run.lowItems, run.dryRun)
          /\ status' = setStatus("report", Len(run.lowItems),
                                 Len(run.priorityItems), run.dryRun, FALSE)
          /\ done' = Ended([run EXCEPT !.reported = Len(run.lowItems)], "report")
       \/ /\ run.kind = "markOnly"
          /\ status' = setStatus("Marked", Len(run.lowItems), 0, FALSE, FALSE)
          /\ done' = Ended([run EXCEPT !.reported = Len(run.lowItems)], "marked")
          /\ UNCHANGED results
    /\ buttons' = setButtonsDisabled(FALSE)
    /\ runs' = RemoveAt(runs, k)
    /\ UNCHANGED <<now, dom, lastScoredItems>>
    /\ HarnessIdle

NoEval == [done |-> FALSE, score |-> 0, low |-> FALSE, at |-> 0]

OrchestratorIdle ==
  /\ buttons = [b \in Buttons |-> FALSE]
  /\ status = setStatus("", 0, 0, FALSE, FALSE)
  /\ results = Blank
  /\ lastScoredItems = <<>>
  /\ runs = <<>>
  /\ done = NoRun

Init ==
  /\ now = T0
  /\ dom \in DomInputs
  /\ unread \in Mailboxes
  /\ OrchestratorIdle
  /\ evalCfg = <<>>
  /\ evalItem = CeoMessage
  /\ firstEval = NoEval
  /\ lastEval = NoEval

Next ==
  \/ ClickDryRun
  \/ ClickTriage
  \/ ClickMarkRead
  \/ FetchFailed
  \/ TriageFetched
  \/ MarkOnlyFetched
  \/ MarkFailed
  \/ Marked
  \/ Tick

Spec == Init /\ [][Next]_vars

\* -------------------------------------------------------- scoring harness

Evaluation ==
  [done  |-> TRUE,
   score |-> scoreItem(evalItem, evalCfg),
   low   |-> isLowPriority(evalItem, evalCfg),
   at    |-> now]

EvaluateFirst ==
  /\ ~firstEval.done
  /\ firstEval' = Evaluation
  /\ UNCHANGED <<now, dom, unread, buttons, status, results, lastScoredItems,
                 runs, done, evalCfg, evalItem, lastEval>>

EvaluateAgain ==
  /\ firstEval.done
  /\ lastEval' = Evaluation
  /\ UNCHANGED <<now, dom, unread, buttons, status, results, lastScoredItems,
                 runs, done, evalCfg, evalItem, firstEval>>

ScoreInit ==
  /\ now = T0
  /\ dom \in DomInputs
  /\ evalCfg = getConfig
  /\ evalItem \in EvalItems
  /\ firstEval = NoEval
  /\ lastEval = NoEval
  /\ unread = <<>>
  /\ OrchestratorIdle

ScoreNext == EvaluateFirst \/ EvaluateAgain \/ Tick

SpecScore == ScoreInit /\ [][ScoreNext]_vars

\* ------------------------------------------------ claims about the scorer

Evals == {e \in {firstEval, lastEval} : e.done}

\* C3: scoreItem(m, c) = 0 exactly when isLowPriority(m, c), and a message that
\* is not low-priority scores at least 1, also when its received timestamp is
\* absent or unparseable.
C3_ZeroIffLowPriority ==
  \A e \in Evals : (e.score = 0 <=> e.low) /\ (~e.low => e.score >= 1)

\* A message with no usable timestamp that is not low-priority has been scored.
C3_Witness ==
  /\ firstEval.done
  /\ evalItem.received = NaT
  /\ ~firstEval.low
  /\ firstEval.score >= 1

RecencyAt(r, t) ==
  CASE r = NaT -> 0
    [] r # NaT /\ t - r < 4 * HOUR -> 20
    [] r # NaT /\ t - r >= 4 * HOUR /\ t - r < 24 * HOUR -> 10
    [] r # NaT /\ t - r >= 24 * HOUR /\ t - r < 48 * HOUR -> 5
    [] OTHER -> 0

Bit(p) == IF p THEN 1 ELSE 0

ClosedForm(item, cfg, t) ==
  10 + 50 * Bit(\E k \in 1..Len(cfg.highSenders) :
                   includes(toLowerCase(item.from), cfg.highSenders[k]))
     + 30 * Bit(\E k \in 1..Len(cfg.highSubjects) :
                   includes(toLowerCase(item.subject), cfg.highSubjects[k]))
     + RecencyAt(item.received, t)
     + 15 * Bit(item.isDirect)
     + 10 * Bit(\E k \in 1..Len(replyPhrases) :
                   includes(toLowerCase(item.bodyPreview), replyPhrases[k]))
     + 25 * Bit(item.importance = "High")
     - 10 * Bit(item.importance = "Low")

\* C10: for a message that is not low-priority the score is
\* max(1, 10 + 50 VIP + 30 subject keyword + recency + 15 direct + 10 reply
\* phrase + 25 High - 10 Low) with exactly one recency tier and no upper cap;
\* the ceo@company.com scenario scores 125 and gets the badge "high".
C10_ScoreFormula ==
  \A e \in Evals :
    /\ ~e.low =>
         LET f == ClosedForm(evalItem, evalCfg, e.at)
         IN  e.score = IF f >= 1 THEN f ELSE 1
    /\ (evalItem = CeoMessage /\ dom = DomDefault
          /\ e.at = CeoMessage.received + 1 * HOUR) =>
         (e.score = 125 /\ badgeLevel(e.score) = "high")

\* The ceo@company.com scenario has been scored, one hour after it arrived.
C10_Witness ==
  /\ firstEval.done
  /\ evalItem = CeoMessage
  /\ dom = DomDefault
  /\ firstEval.at = CeoMessage.received + 1 * HOUR
  /\ firstEval.score = 125

\* ------------------------------------------- claims about the orchestrator

\* The runs whose scoring pass has happened: in flight or the one ended last.
Range(seq) == {seq[i] : i \in 1..Len(seq)}
Known == Range(runs) \cup {done}
ScoredRuns == {r \in Known : r.kind = "triage" /\ r.scored}

\* The ids of the fetched messages the classifier calls low-priority, in
\* retrieval order.
LowIdsOf(items, cfg) ==
  LET Low(m) == isLowPriority(m, cfg)
      low == SelectSeq(items, Low)
  IN  [i \in 1..Len(low) |-> low[i].id]

IdSet(list) == {list[i].id : i \in 1..Len(list)}

\* C2: every mark-as-read request carries exactly the ids of the fetched
\* messages that isLowPriority accepts, in retrieval order, and
\* markLowPriorityRead sends the request whenever one fetched message is
\* low-priority.
C2_SubmittedAreTheLowPriorityIds ==
  \A r \in Known :
    /\ \A q \in 1..Len(r.requests) : r.requests[q] = LowIdsOf(r.items, r.cfg)
    /\ (r.kind = "markOnly" /\ r.fetched /\ LowIdsOf(r.items, r.cfg) # <<>>)
         => Len(r.requests) = 1

\* A mark request is outstanding for a fetch that also held a message that is
\* not low-priority.
C2_Witness ==
  \E r \in Range(runs) :
    /\ r.pc = "marking"
    /\ r.requests # <<>>
    /\ Len(r.requests[1]) < Len(r.items)

\* C4: after scoring, priorityList and lowPriorityList partition the fetched
\* messages: each message is in exactly one of them, priorityList holds the
\* messages that are not low-priority and lowPriorityList the low-priority ones
\* in retrieval order.
C4_Partition ==
  \A r \in ScoredRuns :
    /\ Len(r.priorityItems) + Len(r.lowItems) = Len(r.items)
    /\ IdSet(r.priorityItems) \cap IdSet(r.lowItems) = {}
    /\ IdSet(r.priorityItems) \cup IdSet(r.lowItems) = IdSet(r.items)
    /\ \A m \in Range(r.items) :
         m.id \in IdSet(r.lowItems) <=> isLowPriority(m, r.cfg)
    /\ [i \in 1..Len(r.lowItems) |-> r.lowItems[i].id] = LowIdsOf(r.items, r.cfg)

\* A scored run whose two lists are both non-empty.
C4_Witness ==
  \E r \in ScoredRuns : r.priorityItems # <<>> /\ r.lowItems # <<>>

\* The position of the message with this id in the fetched sequence.
PositionOf(items, id) == CHOOSE i \in 1..Len(items) : items[i].id = id

\* C9: priorityList is sorted by score, descending, and two messages of equal
\* score keep their retrieval order.
C9_SortedStable ==
  \A r \in ScoredRuns :
    \A i, j \in 1..Len(r.priorityItems) :
      i < j =>
        /\ r.priorityItems[i].score >= r.priorityItems[j].score
        /\ r.priorityItems[i].score = r.priorityItems[j].score
             => PositionOf(r.items, r.priorityItems[i].id)
                  < PositionOf(r.items, r.priorityItems[j].id)

\* A scored run whose priority list holds two messages of equal score.
C9_Witness ==
  \E r \in ScoredRuns :
    /\ Len(r.priorityItems) = 2
    /\ r.priorityItems[1].score = r.priorityItems[2].score

\* C6: at most one run is in flight; the three buttons are disabled while it
\* is, and enabled again whenever none is.
C6_OneRunAtATime ==
  /\ Len(runs) <= 1
  /\ runs # <<>> => \A b \in Buttons : buttons[b]
  /\ runs = <<>> => \A b \in Buttons : ~buttons[b]

\* A mark request is outstanding and the buttons are disabled.
C6_Witness ==
  /\ Len(runs) = 1
  /\ runs[1].pc = "marking"
  /\ \A b \in Buttons : buttons[b]

C7_DaysBackInRange ==
  \A r \in Range(runs) :
    /\ r.cfg.daysBack \in 1..30
    /\ LET n == parseInt(dom.cfgDays)
       IN  (n.isNaN \/ n.val \notin 1..30) => r.cfg.daysBack = 7

\* What C1 says of the requests of one runTriage: a dry run sends no mark
\* request, a live run sends one batched request when its low-priority list is
\* not empty and none otherwise, and the count reported is the length of that
\* list.
TriageRequests ==
  \A r \in Known :
    r.kind = "triage" =>
      /\ r.dryRun => r.requests = <<>>
      /\ (r.fetched /\ r.items = <<>>) => (r.requests = <<>> /\ ~r.scored)
      /\ (~r.dryRun /\ r.scored) =>
           /\ Len(r.requests) = (IF r.lowItems # <<>> THEN 1 ELSE 0)
           /\ \A q \in 1..Len(r.requests) :
                r.requests[q] = [i \in 1..Len(r.lowItems) |-> r.lowItems[i].id]
      /\ r.reported # -1 => r.reported = Len(r.lowItems)

\* The run that ended last, a, and a run b scored in the next state are a dry
\* and a live runTriage over the same fetched messages and the same Config.
DryLivePair(a, b) ==
  /\ a.kind = "triage" /\ a.scored
  /\ b.kind = "triage" /\ b.scored
  /\ a.dryRun # b.dryRun
  /\ a.items = b.items
  /\ a.cfg = b.cfg

SameLists(a, b) ==
  /\ a.priorityItems = b.priorityItems
  /\ a.lowItems = b.lowItems
  /\ Len(a.lowItems) = Len(b.lowItems)

\* C1 as stated: a dry and a live runTriage over the same fetched messages and
\* Config compute the same priorityList, lowPriorityList and marked count, and
\* differ only in the mark request.
C1_DryAndLiveAgree ==
  /\ []TriageRequests
  /\ [][\A b \in ScoredRuns' : DryLivePair(done, b) => SameLists(done, b)]_vars

\* C1 amended: the two runs compute the same lowPriorityList and marked count
\* and rank the same messages; the priorityList (its scores and its order) is
\* the same when the two runs score at the same clock reading.
C1_DryAndLiveAgreeAtSameClock ==
  /\ []TriageRequests
  /\ [][\A b \in ScoredRuns' :
          DryLivePair(done, b) =>
            /\ done.lowItems = b.lowItems
            /\ Len(done.lowItems) = Len(b.lowItems)
            /\ IdSet(done.priorityItems) = IdSet(b.priorityItems)
            /\ done.scoredAt = b.scoredAt => SameLists(done, b)]_vars

\* A live run has sent its one mark request after a dry run over the same
\* messages, scored at the same clock reading, has ended.
C1_Witness ==
  \E b \in Range(runs) :
    /\ DryLivePair(done, b)
    /\ done.dryRun
    /\ done.scoredAt = b.scoredAt
    /\ done.requests = <<>>
    /\ Len(b.requests) = 1
    /\ b.priorityItems # <<>>

=============================================================================
